---- MODULE Spec2Model ----
(***************************************************************************)
(* Model of package assert (src/assert.go): the process-wide registries    *)
(* (flushes, assertData, writer), the predicate functions Assert, Nil,     *)
(* NotNil, Never, NoError and the failure reporter runAssert.              *)
(*                                                                         *)
(* The program is one goroutine that calls the package's functions one     *)
(* after the other.  A call of runAssert is a frame on `stack`; a flush    *)
(* handler that asserts pushes a nested frame.  runAssert never returns,   *)
(* so frames are never popped.                                             *)
(***************************************************************************)
EXTENDS Integers, Sequences, FiniteSets, TLC

\* ------------------------------------------------------------------ bounds
MaxFlush == 2      \* longest flush list explored
MaxArgs == 2       \* longest caller context-argument list explored
MaxDepth == 2      \* deepest nesting of runAssert before the stack overflows
MaxLog == 1        \* slog records the satisfied Nil checks may pile up

\* ------------------------------------------------------------ input domains
Keys == {"d", "e"}
Dumpables == {"o1", "o2"}
Writers == {"w1"}
NoWriter == "nil"
Sinks == {"stderr"} \cup Writers
Msgs == {"m"}
HandlerKinds == {"noop", "assert", "mutate"}
Errs == {"e1"}
NoErr == "nil"

\* Go values of type interface{} that reach the formatter.
Str(s) == [t |-> "string", s |-> s]
ErrVal(e) == [t |-> "error", s |-> e]
ArgVals == {Str("a"), Str("d")}

\* The items handed to Nil and NotNil: the dynamic type of the interface
\* value ("none" is the nil interface) and whether the value it holds is nil.
NilIface == [typ |-> "none", isnil |-> TRUE]
NilPtr == [typ |-> "ptr", isnil |-> TRUE]
Ptr == [typ |-> "ptr", isnil |-> FALSE]
NilMap == [typ |-> "map", isnil |-> TRUE]
Items == {NilIface, NilPtr, Ptr, NilMap}

SeqsUpTo(S, n) == UNION {[1..m -> S] : m \in 0..n}
\* A caller list that names the built-in key msg, twice.
DuplicateArgs == <<Str("msg"), Str("a"), Str("msg"), Str("d")>>
ArgLists == SeqsUpTo(ArgVals, MaxArgs) \cup {DuplicateArgs}

VARIABLES
    flushes,      \* var flushes []AssertFlush
    assertData,   \* var assertData map[string]AssertData
    writer,       \* var writer io.Writer
    out,          \* what has been written to each stream
    slogged,      \* records handed to the default slog logger
    stack,        \* active invocations of runAssert, outermost first
    status,       \* "running", "exited", "panicked", "overflow"
    exitCode,     \* the process's exit status, 0 while it runs
    events,       \* history: what happened since the first failure, in order
    registered,   \* history: the handlers passed to AddAssertFlush, in order
    added,        \* history: per key, the value of the latest AddAssertData
                  \* not followed by a RemoveAssertData, or NoEntry
    last          \* history: the last call made by the program

vars == <<flushes, assertData, writer, out, slogged, stack, status, exitCode,
          events, registered, added, last>>

\* ----------------------------------------------------------- pure helpers
\* AssertData.Dump of the registered objects.
Dump(v) == IF v = "o1" THEN "dump1" ELSE "dump2"

\* error.Error of the error values.
ErrorText(e) == IF e = "e1" THEN "boom" ELSE "?"

\* fmt's %s and %v of a value: a string prints as itself, an error prints
\* its Error().
FmtV(v) == IF v.t = "error" THEN ErrorText(v.s) ELSE v.s

\* An insertion that keeps the entry a key already has.
MapSet_keepFirst(m, k, v) ==
    [x \in DOMAIN m \cup {k} |-> IF x \in DOMAIN m THEN m[x] ELSE v]

\* assertData[key] = value
MapSet(m, k, v) == [x \in DOMAIN m \cup {k} |-> IF x = k THEN v ELSE m[x]]

\* A removal that empties the registry.
MapDelete_clear(m, k) == [x \in {} |-> m[x]]

\* delete(assertData, key)
MapDelete(m, k) == [x \in DOMAIN m \ {k} |-> m[x]]

\* The orders in which `for k, v := range assertData` may visit the keys.
RangeOrders(m) ==
    {o \in [1..Cardinality(DOMAIN m) -> DOMAIN m] :
        \A i, j \in DOMAIN o : o[i] = o[j] => i = j}

EmptyMap == [x \in {} |-> "o1"]
NoEntry == "none"

Call(fn, truth, item, err) ==
    [fn |-> fn, truth |-> truth, item |-> item, err |-> err, key |-> "", val |-> ""]
RegOp(fn, key, val) ==
    [fn |-> fn, truth |-> TRUE, item |-> NilIface, err |-> NoErr, key |-> key, val |-> val]

Chunk(t, k, v, a) == [t |-> t, k |-> k, v |-> v, a |-> a]
Event(e, d, h, k) == [e |-> e, d |-> d, h |-> h, k |-> k]

Idle == status = "running" /\ stack = <<>>

Init ==
    /\ flushes = <<>>
    /\ assertData = EmptyMap
    /\ writer = NoWriter
    /\ out = [s \in Sinks |-> <<>>]
    /\ slogged = <<>>
    /\ stack = <<>>
    /\ status = "running"
    /\ exitCode = 0
    /\ events = <<>>
    /\ registered = <<>>
    /\ added = [k \in Keys |-> NoEntry]
    /\ last = RegOp("init", "", "")

\* ------------------------------------------------------ registry operations
AddAssertData(key, value) ==
    /\ Idle
    /\ assertData' = MapSet(assertData, key, value)
    /\ added' = [added EXCEPT ![key] = value]
    /\ last' = RegOp("AddAssertData", key, value)
    /\ UNCHANGED <<flushes, writer, out, slogged, stack, status, exitCode,
                   events, registered>>

RemoveAssertData(key) ==
    /\ Idle
    /\ assertData' = MapDelete(assertData, key)
    /\ added' = [added EXCEPT ![key] = NoEntry]
    /\ last' = RegOp("RemoveAssertData", key, "")
    /\ UNCHANGED <<flushes, writer, out, slogged, stack, status, exitCode,
                   events, registered>>

\* A registration that puts the new handler first.
AppendFlush_prepend(fl, flusher) == <<flusher>> \o fl

\* A registration that ignores a handler that is already in the list.
AppendFlush_dedupe(fl, flusher) ==
    IF \E j \in DOMAIN fl : fl[j] = flusher THEN fl ELSE Append(fl, flusher)

\* flushes = append(flushes, flusher)
AppendFlush(fl, flusher) == Append(fl, flusher)

AddAssertFlush(flusher) ==
    /\ Idle
    /\ Len(flushes) < MaxFlush
    /\ flushes' = AppendFlush(flushes, flusher)
    /\ registered' = Append(registered, flusher)
    /\ last' = RegOp("AddAssertFlush", "", flusher)
    /\ UNCHANGED <<assertData, writer, out, slogged, stack, status, exitCode,
                   events, added>>

\* A ToWriter that also drops the registered flush handlers.
ToWriter_reset(w) ==
    /\ Idle
    /\ writer' = w
    /\ flushes' = <<>>
    /\ last' = RegOp("ToWriter", "", w)
    /\ UNCHANGED <<assertData, out, slogged, stack, status, exitCode,
                   events, registered, added>>

ToWriter(w) ==
    /\ Idle
    /\ writer' = w
    /\ last' = RegOp("ToWriter", "", w)
    /\ UNCHANGED <<flushes, assertData, out, slogged, stack, status, exitCode,
                   events, registered, added>>

\* ------------------------------------------------------------- runAssert
\* A fresh invocation of runAssert: `range flushes` reads the slice once,
\* when the loop starts.
Frame(msg, args) ==
    [msg |-> msg, args |-> args, fl |-> flushes, i |-> 1, pc |-> "flush"]

Top == stack[Len(stack)]
SetTop(f) == [stack EXCEPT ![Len(stack)] = f]

\* A runAssert that reports without running the flush loop.
FlushLoopDone_never(f) == TRUE

\* A flush loop that stops one handler short.
FlushLoopDone_early(f) == f.i >= Len(f.fl)

\* The flush loop has no handler left to call.
FlushLoopDone(f) == f.i > Len(f.fl)

\* What the handlers do when flushed: "noop" only returns, "mutate" calls
\* RemoveAssertData("d") and AddAssertData("e", o2), "assert" calls Never.
HandlerData(kind, m) ==
    IF kind = "mutate" THEN MapSet(MapDelete(m, "d"), "e", "o2") ELSE m

\* f.Flush() of the next handler of the innermost runAssert.
Flush ==
    /\ status = "running"
    /\ stack # <<>>
    /\ Top.pc = "flush"
    /\ ~FlushLoopDone(Top)
    /\ LET d == Len(stack)
           h == Top.i
           kind == Top.fl[h]
           called == Event("flush", d, h, kind)
       IN  IF kind = "assert"
           THEN \* the handler calls Never, which calls runAssert again
                /\ assertData' = assertData
                /\ added' = added
                /\ IF d < MaxDepth
                   THEN /\ stack' = Append(stack, Frame("m", <<>>))
                        /\ events' = events \o <<called, Event("enter", d + 1, 0, "")>>
                        /\ UNCHANGED <<status, exitCode>>
                   ELSE \* the goroutine's stack is exhausted: fatal error
                        /\ status' = "overflow"
                        /\ exitCode' = 2
                        /\ events' = Append(events, called)
                        /\ stack' = stack
           ELSE /\ assertData' = HandlerData(kind, assertData)
                /\ added' = IF kind = "mutate"
                             THEN [added EXCEPT !["d"] = NoEntry, !["e"] = "o2"]
                             ELSE added
                /\ stack' = SetTop([Top EXCEPT !.i = h + 1])
                /\ events' = events \o <<called, Event("flushed", d, h, kind)>>
                /\ UNCHANGED <<status, exitCode>>
    /\ UNCHANGED <<flushes, writer, out, slogged, registered, last>>

\* slogValues as built by runAssert, the registry visited in `order`.
RegistryValues(m, order) ==
    [j \in 1..(2 * Len(order)) |->
        IF j % 2 = 1 THEN Str(order[(j + 1) \div 2])
                     ELSE Str(Dump(m[order[j \div 2]]))]

\* slogValues with the registry's pairs put in front of the caller's.
SlogValues_registryFirst(msg, args, m, order) ==
    <<Str("msg"), Str(msg), Str("area"), Str("Assert")>>
        \o RegistryValues(m, order) \o args

SlogValues(msg, args, m, order) ==
    <<Str("msg"), Str(msg), Str("area"), Str("Assert")>> \o args
        \o RegistryValues(m, order)

\* A print loop that keeps, of the lines with the same key, only the last,
\* as a map from key to value would.
Lines_merged(sv) ==
    LET all == [p \in 1..(Len(sv) \div 2) |->
                  [p |-> p,
                   c |-> Chunk("line", FmtV(sv[2 * p - 1]), FmtV(sv[2 * p]), <<>>)]]
        kept == SelectSeq(all, LAMBDA x :
                    \A q \in (x.p + 1)..Len(all) : all[q].c.k # x.c.k)
    IN  [i \in DOMAIN kept |-> kept[i].c]

\* The "   %s=%v" lines the print loop writes before it ends or panics.
Lines(sv) ==
    [p \in 1..(Len(sv) \div 2) |->
        Chunk("line", FmtV(sv[2 * p - 1]), FmtV(sv[2 * p]), <<>>)]

\* The "ARGS: %+v" echo of the caller's arguments.
ArgsEcho(args) == Chunk("args", "", "", [j \in DOMAIN args |-> FmtV(args[j])])

\* The stream runAssert prints to.
ReportSink(w) == "stderr"

\* slogValues[i + 1] is out of range in the last round of the print loop.
PrintPanics(sv) == Len(sv) % 2 = 1

\* Everything runAssert does between the flush loop and os.Exit.
Report ==
    /\ status = "running"
    /\ stack # <<>>
    /\ Top.pc = "flush"
    /\ FlushLoopDone(Top)
    /\ \E order \in RangeOrders(assertData) :
        LET sv == SlogValues(Top.msg, Top.args, assertData, order)
            sink == ReportSink(writer)
            text == <<ArgsEcho(Top.args), Chunk("header", "", "", <<>>)>>
                        \o Lines(sv)
        IN  IF PrintPanics(sv)
            THEN /\ out' = [out EXCEPT ![sink] = @ \o text]
                 /\ status' = "panicked"
                 /\ exitCode' = 2
                 /\ events' = events \o
                        <<Event("report", Len(stack), 0, ""),
                          Event("panic", Len(stack), 0, "")>>
                 /\ stack' = stack
            ELSE /\ out' = [out EXCEPT ![sink] =
                                @ \o text \o <<Chunk("stack", "", "", <<>>)>>]
                 /\ stack' = SetTop([Top EXCEPT !.pc = "exit"])
                 /\ events' = Append(events, Event("report", Len(stack), 0, ""))
                 /\ UNCHANGED <<status, exitCode>>
    /\ UNCHANGED <<flushes, assertData, writer, slogged, registered, added,
                   last>>

\* os.Exit(1)
Exit ==
    /\ status = "running"
    /\ stack # <<>>
    /\ Top.pc = "exit"
    /\ status' = "exited"
    /\ exitCode' = 1
    /\ events' = Append(events, Event("exit", Len(stack), 0, ""))
    /\ UNCHANGED <<flushes, assertData, writer, out, slogged, stack,
                   registered, added, last>>

\* ------------------------------------------------------------- predicates
\* The predicate returns to its caller.
Return(c) ==
    /\ last' = c
    /\ UNCHANGED <<stack, status, exitCode, events>>

\* The predicate calls runAssert(msg, args...).
Fail(c, msg, args) ==
    /\ last' = c
    /\ stack' = <<Frame(msg, args)>>
    /\ events' = Append(events, Event("enter", 1, 0, ""))
    /\ UNCHANGED <<status, exitCode>>

SlogRecord(level, msg, attrs) == [level |-> level, msg |-> msg, attrs |-> attrs]

CallAssert(truth, msg, data) ==
    /\ Idle
    /\ IF ~truth
       THEN Fail(Call("Assert", truth, NilIface, NoErr), msg, data)
       ELSE Return(Call("Assert", truth, NilIface, NoErr))
    /\ UNCHANGED <<flushes, assertData, writer, out, slogged, registered,
                   added>>

\* item == nil
IsNilInterface(item) == item.typ = "none"

Nil(item, msg, data) ==
    /\ Idle
    /\ Len(slogged) < MaxLog
    /\ IF IsNilInterface(item)
       THEN /\ slogged' = Append(slogged, SlogRecord("INFO", "Nil Check", <<item>>))
            /\ Return(Call("Nil", TRUE, item, NoErr))
       ELSE /\ slogged' = slogged \o
                    <<SlogRecord("INFO", "Nil Check", <<item>>),
                      SlogRecord("ERROR", "Nil#not nil encountered", <<>>)>>
            /\ Fail(Call("Nil", TRUE, item, NoErr), msg, data)
    /\ UNCHANGED <<flushes, assertData, writer, out, registered, added>>

\* A presence check that only compares the interface value with nil.
NotNilFails_shallow(item) == IsNilInterface(item)

\* item == nil || reflect.ValueOf(item).Kind() == reflect.Ptr
\*                && reflect.ValueOf(item).IsNil()
NotNilFails(item) ==
    IsNilInterface(item) \/ (item.typ = "ptr" /\ item.isnil)

NotNil(item, msg, data) ==
    /\ Idle
    /\ IF NotNilFails(item)
       THEN /\ slogged' = Append(slogged,
                    SlogRecord("ERROR", "NotNil#nil encountered", <<>>))
            /\ Fail(Call("NotNil", TRUE, item, NoErr), msg, data)
       ELSE /\ slogged' = slogged
            /\ Return(Call("NotNil", TRUE, item, NoErr))
    /\ UNCHANGED <<flushes, assertData, writer, out, registered, added>>

Never(msg, data) ==
    /\ Idle
    /\ Fail(Call("Never", TRUE, NilIface, NoErr), msg, data)
    /\ UNCHANGED <<flushes, assertData, writer, out, slogged, registered,
                   added>>

\* An error pair put in front of the caller's data.
ErrorData_front(data, err) == <<Str("error"), ErrVal(err)>> \o data

\* data = append(data, "error", err)
ErrorData(data, err) == data \o <<Str("error"), ErrVal(err)>>

NoError(err, msg, data) ==
    /\ Idle
    /\ IF err # NoErr
       THEN Fail(Call("NoError", TRUE, NilIface, err), msg, ErrorData(data, err))
       ELSE Return(Call("NoError", TRUE, NilIface, err))
    /\ UNCHANGED <<flushes, assertData, writer, out, slogged, registered,
                   added>>

\* ---------------------------------------------------------- specification
Next ==
    \/ \E k \in Keys, v \in Dumpables : AddAssertData(k, v)
    \/ \E k \in Keys : RemoveAssertData(k)
    \/ \E h \in HandlerKinds : AddAssertFlush(h)
    \/ \E w \in Writers : ToWriter(w)
    \/ \E t \in BOOLEAN, m \in Msgs, data \in ArgLists : CallAssert(t, m, data)
    \/ \E it \in Items, m \in Msgs, data \in ArgLists : Nil(it, m, data)
    \/ \E it \in Items, m \in Msgs, data \in ArgLists : NotNil(it, m, data)
    \/ \E m \in Msgs, data \in ArgLists : Never(m, data)
    \/ \E e \in Errs \cup {NoErr}, m \in Msgs, data \in ArgLists : NoError(e, m, data)
    \/ Flush
    \/ Report
    \/ Exit

Spec == Init /\ [][Next]_vars

\* ------------------------------------------------------------ properties
FlushCalls(d) == SelectSeq(events, LAMBDA x : x.e = "flush" /\ x.d = d)
Written == out["stderr"] \o out["w1"]
WrittenLines == SelectSeq(Written, LAMBDA c : c.t = "line")
Entered == \E p \in DOMAIN events : events[p].e = "enter"
ConfiguredSink == IF writer = NoWriter THEN "stderr" ELSE writer
DumpTexts == {Dump(v) : v \in Dumpables}

\* A violated predicate call, in the words of the specification.
ClaimViolated(c) ==
    \/ c.fn = "Assert" /\ ~c.truth
    \/ c.fn = "NoError" /\ c.err # NoErr
    \/ c.fn = "Nil" /\ ~c.item.isnil
    \/ c.fn = "NotNil" /\ c.item.isnil
    \/ c.fn = "Never"

\* C1: a failure triggered by a flush handler skips the flush step, so no
\* handler is flushed by a nested report and every registered handler is
\* flushed at most once over the whole scenario.
CE_C1 ==
    /\ \A p \in DOMAIN events : events[p].e = "flush" => events[p].d = 1
    /\ \A p, q \in DOMAIN events :
          (events[p].e = "flush" /\ events[q].e = "flush"
              /\ events[p].h = events[q].h) => p = q

\* C2: every part of the report goes to the sink configured last with
\* ToWriter, and to standard error only when no sink was configured.
CE_C2 ==
    /\ \A s \in Sinks : out[s] # <<>> => s = ConfiguredSink
    /\ status = "exited" => out[ConfiguredSink] # <<>>

\* C3: whatever the message, the argument list, the handlers and the
\* entries, a process that stops after a failure has stopped in the
\* termination step, with a non-zero status.
CE_C3 == status # "running" => (status = "exited" /\ exitCode # 0)

\* C4: a flush step calls the handlers in the order of their registration,
\* each once: what a report has called so far is H1..Hi, and H1..Hn once
\* its flush step is over.
Thm_C4 ==
    \A d \in 1..Len(stack) :
        LET calls == FlushCalls(d)
        IN  /\ Len(calls) <= Len(registered)
            /\ \A p \in 1..Len(calls) :
                  calls[p].h = p /\ calls[p].k = registered[p]
            /\ (\E p \in DOMAIN events :
                    events[p].e = "report" /\ events[p].d = d)
                  => Len(calls) = Len(registered)

W_C4 ==
    /\ status = "exited"
    /\ Len(registered) >= 2
    /\ registered[1] # registered[2]
    /\ Len(FlushCalls(1)) = Len(registered)

\* C5: in a failure that is not reentrant nothing of the report is written
\* before every registered handler has returned from Flush, and the process
\* exits only after the whole report (echo, header, lines, stack trace) has
\* been written.
ReportComplete ==
    /\ Len(Written) >= 3
    /\ Written[1].t = "args"
    /\ Written[2].t = "header"
    /\ Written[Len(Written)].t = "stack"
    /\ Len(WrittenLines) = Len(Written) - 3
    /\ Len(WrittenLines) =
          2 + (Len(stack[1].args) \div 2) + Cardinality(DOMAIN assertData)

Thm_C5 ==
    /\ Written # <<>> => \E p \in DOMAIN events : events[p].e = "report"
    /\ \A p \in DOMAIN events :
          (events[p].e = "report" /\ events[p].d = 1) =>
              \A h \in 1..Len(flushes) :
                  \E q \in 1..(p - 1) :
                      /\ events[q].e = "flushed"
                      /\ events[q].d = 1
                      /\ events[q].h = h
    /\ \A p \in DOMAIN events :
          events[p].e = "exit" =>
              /\ \E q \in 1..(p - 1) : events[q].e = "report"
              /\ ReportComplete

W_C5 ==
    /\ status = "exited"
    /\ Len(flushes) >= 2
    /\ Len(stack) = 1
    /\ ReportComplete

\* C6: a violated predicate call ends with exactly one failure report
\* emitted and exactly one invocation of the termination step.
NumReports == Len(SelectSeq(Written, LAMBDA c : c.t = "stack"))
NumExits == Len(SelectSeq(events, LAMBDA x : x.e = "exit"))
CE_C6 ==
    (ClaimViolated(last) /\ status # "running") =>
        (NumReports = 1 /\ NumExits = 1)

\* C7: a predicate call whose condition is satisfied returns and changes
\* nothing: no flush, no output, no log record, and the registries and the
\* sink stay as they were.
CE_C7 ==
    [][(/\ last'.fn \in {"Assert", "NoError", "Nil", "NotNil"}
        /\ ~ClaimViolated(last')
        /\ stack = <<>> /\ status = "running")
       => (/\ UNCHANGED <<flushes, assertData, writer, out, slogged>>
           /\ stack' = <<>> /\ status' = "running" /\ events' = events)]_vars

\* C8: NotNil calls the failure reporter for the nil interface and for an
\* interface that holds a nil pointer, and returns without a report for an
\* item that holds a non-nil value.
Thm_C8 ==
    last.fn = "NotNil" =>
        /\ (last.item = NilIface \/ last.item = NilPtr) => Entered
        /\ ~last.item.isnil =>
              (~Entered /\ status = "running" /\ Written = <<>>)

W_C8 == last.fn = "NotNil" /\ last.item = NilPtr /\ status = "exited"

\* C9: Nil returns without a report for every nil item, a typed nil pointer
\* included, and reports only non-nil items; so for every item exactly one
\* of Nil and NotNil is a violation.
CE_C9 == last.fn = "Nil" => (Entered <=> ~last.item.isnil)

\* C10: in a report the caller's pairs come right after msg and area, in
\* the order they were passed, and no registry pair comes before them.
Thm_C10 ==
    WrittenLines # <<>> =>
        LET args == stack[1].args
            n == Len(args) \div 2
        IN  /\ Len(WrittenLines) >= 2 + n
            /\ \A p \in 1..n :
                  /\ WrittenLines[2 + p].k = FmtV(args[2 * p - 1])
                  /\ WrittenLines[2 + p].v = FmtV(args[2 * p])
            /\ \A q \in 1..(2 + n) :
                  /\ WrittenLines[q].k \notin DumpTexts
                  /\ WrittenLines[q].v \notin DumpTexts
            /\ Len(args) % 2 = 0 =>
                  \A k \in DOMAIN assertData :
                      \E q \in (3 + n)..Len(WrittenLines) :
                          /\ WrittenLines[q].k = k
                          /\ WrittenLines[q].v = Dump(assertData[k])

W_C10 ==
    /\ status = "exited"
    /\ Len(stack[1].args) >= 2
    /\ stack[1].args[1] = Str("a")
    /\ "d" \in DOMAIN assertData

\* C11: NoError with a non-nil error hands the reporter the caller's data
\* followed by the pair "error", err; in the report the line
\* error=<err.Error()> follows the caller's pairs and precedes the registry
\* pairs.  NoError with a nil error reports nothing.
Thm_C11 ==
    last.fn = "NoError" =>
        IF last.err = NoErr
        THEN ~Entered /\ Written = <<>> /\ status = "running"
        ELSE /\ Entered
             /\ LET args == stack[1].args
                    n == Len(args) \div 2
                IN  /\ Len(args) >= 2
                    /\ args[Len(args) - 1] = Str("error")
                    /\ args[Len(args)] = ErrVal(last.err)
                    /\ SubSeq(args, 1, Len(args) - 2) \in ArgLists
                    /\ (WrittenLines # <<>> /\ Len(args) % 2 = 0) =>
                          /\ WrittenLines[2 + n].k = "error"
                          /\ WrittenLines[2 + n].v = ErrorText(last.err)
                          /\ \A q \in 1..(2 + n) :
                                WrittenLines[q].v \notin DumpTexts

W_C11 ==
    /\ last.fn = "NoError"
    /\ status = "exited"
    /\ Len(stack[1].args) = 4
    /\ assertData # EmptyMap
    /\ WrittenLines[4].k = "error"
    /\ WrittenLines[4].v = "boom"

\* C12: after any sequence of AddAssertData and RemoveAssertData calls the
\* registry holds, for each key, exactly the entry of the latest
\* AddAssertData for it when no RemoveAssertData for it came later, and no
\* entry otherwise; a key never has two entries.
Thm_C12 ==
    /\ DOMAIN assertData \subseteq Keys
    /\ \A k \in Keys :
          IF added[k] = NoEntry
          THEN k \notin DOMAIN assertData
          ELSE k \in DOMAIN assertData /\ assertData[k] = added[k]
    /\ \A o \in RangeOrders(assertData) :
          Len(o) = Cardinality({k \in Keys : added[k] # NoEntry})

W_C12 ==
    /\ last.fn = "AddAssertData"
    /\ last.val = "o2"
    /\ assertData[last.key] = "o2"
    /\ \E k \in Keys : k # last.key /\ added[k] = NoEntry
    /\ flushes # <<>>

\* C13: RemoveAssertData of a key that is not registered changes nothing
\* and never fails; of a registered key it removes that key's entry and
\* leaves every other entry, the flush list and the sink as they were.
Thm_C13 ==
    [][(last'.fn = "RemoveAssertData" /\ stack = <<>> /\ status = "running")
       => (/\ status' = "running" /\ stack' = <<>>
           /\ flushes' = flushes
           /\ writer' = writer
           /\ out' = out
           /\ last'.key \notin DOMAIN assertData => assertData' = assertData
           /\ DOMAIN assertData' = DOMAIN assertData \ {last'.key}
           /\ \A x \in DOMAIN assertData' : assertData'[x] = assertData[x])]_vars

W_C13 ==
    /\ last.fn = "RemoveAssertData"
    /\ last.key \notin DOMAIN assertData
    /\ assertData # EmptyMap
    /\ flushes # <<>>
    /\ writer # NoWriter

\* C14: whatever the caller's argument list, the report has for each key
\* registered at failure time exactly one pair with that key and its
\* entry's Dump(), and no registry pair for a key that is not registered.
CE_C14 ==
    WrittenLines # <<>> =>
        \A k \in Keys :
            IF k \in DOMAIN assertData
            THEN Cardinality({q \in DOMAIN WrittenLines :
                    /\ WrittenLines[q].k = k
                    /\ WrittenLines[q].v = Dump(assertData[k])}) = 1
            ELSE \A q \in DOMAIN WrittenLines :
                    ~(WrittenLines[q].k = k /\ WrittenLines[q].v \in DumpTexts)

\* C15: pairs with equal keys are all emitted: for a list of caller pairs
\* the report has one line for msg, one for area, one for each caller pair
\* and one for each registry entry, also when a caller key occurs twice or
\* equals a registry key or msg or area.
Thm_C15 ==
    (WrittenLines # <<>> /\ Len(stack[1].args) % 2 = 0) =>
        LET args == stack[1].args
            n == Len(args) \div 2
        IN  /\ Len(WrittenLines) = 2 + n + Cardinality(DOMAIN assertData)
            /\ WrittenLines[1].k = "msg" /\ WrittenLines[1].v = stack[1].msg
            /\ WrittenLines[2].k = "area" /\ WrittenLines[2].v = "Assert"
            /\ \A p \in 1..n :
                  /\ WrittenLines[2 + p].k = FmtV(args[2 * p - 1])
                  /\ WrittenLines[2 + p].v = FmtV(args[2 * p])
            /\ \A k \in DOMAIN assertData :
                  Cardinality({q \in (3 + n)..Len(WrittenLines) :
                      /\ WrittenLines[q].k = k
                      /\ WrittenLines[q].v = Dump(assertData[k])}) = 1

\* A report whose caller names msg twice, and one whose caller names a
\* registered key.
W_C15 ==
    /\ status = "exited"
    /\ \/ /\ stack[1].args = DuplicateArgs
          /\ Cardinality({q \in DOMAIN WrittenLines :
                             WrittenLines[q].k = "msg"}) = 3
       \/ /\ stack[1].args = <<Str("d"), Str("a")>>
          /\ "d" \in DOMAIN assertData
          /\ Cardinality({q \in DOMAIN WrittenLines :
                             WrittenLines[q].k = "d"}) = 2

\* C16: the flush list is the sequence of the handlers passed to
\* AddAssertFlush, in call order, repeated handlers included, and every
\* step leaves the list it found as a prefix of the list it leaves.
Thm_C16 ==
    [][/\ flushes' = registered'
       /\ Len(flushes) <= Len(flushes')
       /\ SubSeq(flushes', 1, Len(flushes)) = flushes]_vars

W_C16 ==
    /\ status = "exited"
    /\ Len(flushes) >= 2
    /\ flushes[1] = flushes[2]
    /\ Len(FlushCalls(1)) = Len(flushes)

\* C17: the registry is read after the flush step: when a registered
\* handler removes the entry of d and adds an entry for e during the flush
\* step, the report of that failure has the pair of e and no pair of d.
Thm_C17 ==
    (/\ WrittenLines # <<>>
     /\ Len(stack[1].args) % 2 = 0
     /\ \E p \in DOMAIN registered : registered[p] = "mutate") =>
        LET n == Len(stack[1].args) \div 2
        IN  /\ \E q \in (3 + n)..Len(WrittenLines) :
                  WrittenLines[q].k = "e" /\ WrittenLines[q].v = Dump("o2")
            /\ \A q \in (3 + n)..Len(WrittenLines) : WrittenLines[q].k # "d"

W_C17 ==
    /\ status = "exited"
    /\ \E p \in DOMAIN events :
          events[p].e = "flushed" /\ events[p].k = "mutate"
    /\ \E q \in DOMAIN WrittenLines :
          WrittenLines[q].k = "e" /\ WrittenLines[q].v = "dump2"
    /\ added["d"] = NoEntry

\* C18: the process-wide states are independent: AddAssertData and
\* RemoveAssertData leave the flush list and the sink alone, AddAssertFlush
\* leaves the registry and the sink alone, ToWriter leaves the registry
\* and the flush list alone.
Thm_C18 ==
    [][(stack = <<>> /\ status = "running") =>
        /\ last'.fn \in {"AddAssertData", "RemoveAssertData"} =>
              (flushes' = flushes /\ writer' = writer)
        /\ last'.fn = "AddAssertFlush" =>
              (assertData' = assertData /\ writer' = writer)
        /\ last'.fn = "ToWriter" =>
              (assertData' = assertData /\ flushes' = flushes)]_vars

W_C18 ==
    /\ last.fn = "ToWriter"
    /\ writer = "w1"
    /\ assertData # EmptyMap
    /\ flushes # <<>>

====
